---- MODULE Spec2Model ----
(***************************************************************************)
(* Model of src/turing_machine.py: class TuringMachine, a fixed-length     *)
(* tape (self.memory) with a movable head (self.index).                    *)
(*                                                                         *)
(* Python lists are 0-indexed, TLA+ sequences 1-indexed: the Python cell   *)
(* memory[p] is memory[p + 1] here.  The variables op, arg, raised, ret,   *)
(* pre_index and pre_op record the last calls made on the object: which    *)
(* method, its argument, the exception it raised, the value it returned,   *)
(* the head index it started from, and the method called before it;        *)
(* last_write and run record the writes made at each position and the     *)
(* current run of moves in one direction.                                  *)
(***************************************************************************)
EXTENDS Integers, Sequences, FiniteSets, TLC

\* ---- bounds of the model ----
\* largest tape_size handed to the constructor
MaxLen == 3
\* largest value handed to the value setter
MaxVal == 2

\* how many cells outside the tape an unchecked head may start or be moved
MaxDrift == 2

Values == 0 .. MaxVal

VARIABLES
    memory,             \* self.memory: the cells
    index,              \* self.index: the head
    tape_size,          \* constructor argument tape_size
    initial_tape_index, \* constructor argument initial_tape_index
    op,                 \* the last call: "__init__", "move_left", "move_right", "value", "value_setter"
    arg,                \* <<value_to_set>> of the last call, or << >>
    raised,             \* exception raised by the last call, or "none"
    ret,                \* <<value returned>> by the last call, or << >>
    pre_index,          \* self.index when the last call started
    pre_op,             \* the call before the last one
    last_write,         \* per position: the value of the latest write made with the head there, 0 if none
    run                 \* the current run of moves in one direction: its direction, the head
                        \* index it started from and the number of its successful moves

vars == <<memory, index, tape_size, initial_tape_index, op, arg, raised, ret, pre_index, pre_op,
          last_write, run>>

\* ---- Python list semantics ----
\* len(self)
__len__ == Len(memory)

\* Position (1-based) of the cell a Python list of n cells selects with
\* subscript i; 0 when the subscript raises IndexError.
PyIndex(n, i) ==
    IF 0 <= i /\ i < n THEN i + 1
    ELSE IF -n <= i /\ i < 0 THEN n + i + 1
    ELSE 0

\* variant: range(1, n) in place of range(0, n)
ZeroTape_range_from_one(n) == [p \in 1 .. n - 1 |-> 0]

\* [0 for _ in range(0, n)]
ZeroTape(n) == [p \in 1 .. n |-> 0]

\* ---- the constructor ----
__init__(size, initial) ==
    /\ memory = ZeroTape(size)
    /\ index = initial
    /\ tape_size = size
    /\ initial_tape_index = initial
    /\ op = "__init__"
    /\ arg = << >>
    /\ raised = "none"
    /\ ret = << >>
    /\ pre_index = initial
    /\ pre_op = "none"
    /\ last_write = [p \in 0 .. size - 1 |-> 0]
    /\ run = [dir |-> "none", start |-> initial, ok |-> 0]

\* the tapes the documented precondition allows: length >= 1, 0 <= index < length
Init ==
    \E size \in 1 .. MaxLen : \E initial \in 0 .. size - 1 :
        __init__(size, initial)

\* the constructor validates nothing: any tape_size (a negative one gives
\* an empty tape) and any initial_tape_index
HeadLow == 0 - MaxDrift - 1
HeadHigh == MaxLen + MaxDrift

InitUnchecked ==
    \E size \in -1 .. MaxLen : \E initial \in HeadLow + 1 .. HeadHigh - 1 :
        __init__(size, initial)

\* ---- the record of the calls ----
\* a move in direction dir continues the current run of moves in that
\* direction, or starts a new run at the present head
NoteMove(dir) ==
    run' = IF run.dir = dir
             THEN [run EXCEPT !.ok = @ + (IF raised' = "none" THEN 1 ELSE 0)]
             ELSE [dir |-> dir, start |-> index,
                   ok |-> IF raised' = "none" THEN 1 ELSE 0]

\* a write of value_to_set made with the head at a position of the tape
NoteWrite(value_to_set) ==
    last_write' = IF raised' = "none" /\ index \in DOMAIN last_write
                    THEN [last_write EXCEPT ![index] = value_to_set]
                    ELSE last_write

\* ---- the methods ----
\* variant: no boundary test, the head is always decremented
move_left_unguarded ==
    /\ op' = "move_left"
    /\ arg' = << >>
    /\ ret' = << >>
    /\ pre_index' = index
    /\ pre_op' = op
    /\ raised' = "none"
    /\ index' = index - 1
    /\ NoteMove("move_left")
    /\ UNCHANGED <<memory, tape_size, initial_tape_index, last_write>>

\* variant: the boundary test compares with 1 in place of 0
move_left_guard_one ==
    /\ op' = "move_left"
    /\ arg' = << >>
    /\ ret' = << >>
    /\ pre_index' = index
    /\ pre_op' = op
    /\ IF index = 1
         THEN /\ raised' = "EndOfTapeException"
              /\ index' = index
         ELSE /\ raised' = "none"
              /\ index' = index - 1
    /\ NoteMove("move_left")
    /\ UNCHANGED <<memory, tape_size, initial_tape_index, last_write>>

\* variant: a successful move_left also resets the cell it leaves to 0
move_left_erases ==
    /\ op' = "move_left"
    /\ arg' = << >>
    /\ ret' = << >>
    /\ pre_index' = index
    /\ pre_op' = op
    /\ IF index = 0
         THEN /\ raised' = "EndOfTapeException"
              /\ index' = index
              /\ memory' = memory
         ELSE /\ raised' = "none"
              /\ index' = index - 1
              /\ memory' = IF PyIndex(Len(memory), index) = 0 THEN memory
                            ELSE [memory EXCEPT ![PyIndex(Len(memory), index)] = 0]
    /\ NoteMove("move_left")
    /\ UNCHANGED <<tape_size, initial_tape_index, last_write>>

\* variant: the boundary test is index >= 0, so move_left always raises on
\* a valid head
move_left_guard_ge ==
    /\ op' = "move_left"
    /\ arg' = << >>
    /\ ret' = << >>
    /\ pre_index' = index
    /\ pre_op' = op
    /\ IF index >= 0
         THEN /\ raised' = "EndOfTapeException"
              /\ index' = index
         ELSE /\ raised' = "none"
              /\ index' = index - 1
    /\ NoteMove("move_left")
    /\ UNCHANGED <<memory, tape_size, initial_tape_index, last_write>>

move_left ==
    /\ op' = "move_left"
    /\ arg' = << >>
    /\ ret' = << >>
    /\ pre_index' = index
    /\ pre_op' = op
    /\ IF index = 0
         THEN /\ raised' = "EndOfTapeException"
              /\ index' = index
         ELSE /\ raised' = "none"
              /\ index' = index - 1
    /\ NoteMove("move_left")
    /\ UNCHANGED <<memory, tape_size, initial_tape_index, last_write>>

\* variant: the boundary test compares with len(self) in place of len(self) - 1
move_right_guard_len ==
    /\ op' = "move_right"
    /\ arg' = << >>
    /\ ret' = << >>
    /\ pre_index' = index
    /\ pre_op' = op
    /\ IF index = __len__
         THEN /\ raised' = "EndOfTapeException"
              /\ index' = index
         ELSE /\ raised' = "none"
              /\ index' = index + 1
    /\ NoteMove("move_right")
    /\ UNCHANGED <<memory, tape_size, initial_tape_index, last_write>>

\* variant: at the right end the head wraps to 0 in place of raising
move_right_wraps ==
    /\ op' = "move_right"
    /\ arg' = << >>
    /\ ret' = << >>
    /\ pre_index' = index
    /\ pre_op' = op
    /\ raised' = "none"
    /\ index' = IF index = __len__ - 1 THEN 0 ELSE index + 1
    /\ NoteMove("move_right")
    /\ UNCHANGED <<memory, tape_size, initial_tape_index, last_write>>

\* variant: a successful move advances the head by 2
move_right_by_two ==
    /\ op' = "move_right"
    /\ arg' = << >>
    /\ ret' = << >>
    /\ pre_index' = index
    /\ pre_op' = op
    /\ IF index = __len__ - 1
         THEN /\ raised' = "EndOfTapeException"
              /\ index' = index
         ELSE /\ raised' = "none"
              /\ index' = index + 2
    /\ NoteMove("move_right")
    /\ UNCHANGED <<memory, tape_size, initial_tape_index, last_write>>

\* variant: the head is incremented before the boundary test, so a failed
\* move leaves it one past the last cell
move_right_increment_first ==
    /\ op' = "move_right"
    /\ arg' = << >>
    /\ ret' = << >>
    /\ pre_index' = index
    /\ pre_op' = op
    /\ index' = index + 1
    /\ raised' = IF index + 1 = __len__ THEN "EndOfTapeException" ELSE "none"
    /\ NoteMove("move_right")
    /\ UNCHANGED <<memory, tape_size, initial_tape_index, last_write>>

\* variant: the boundary test is index >= len(self) - 2, one cell early
move_right_stops_early ==
    /\ op' = "move_right"
    /\ arg' = << >>
    /\ ret' = << >>
    /\ pre_index' = index
    /\ pre_op' = op
    /\ IF index >= __len__ - 2
         THEN /\ raised' = "EndOfTapeException"
              /\ index' = index
         ELSE /\ raised' = "none"
              /\ index' = index + 1
    /\ NoteMove("move_right")
    /\ UNCHANGED <<memory, tape_size, initial_tape_index, last_write>>

\* variant: the boundary test is index >= len(self) - 1
move_right_guard_ge ==
    /\ op' = "move_right"
    /\ arg' = << >>
    /\ ret' = << >>
    /\ pre_index' = index
    /\ pre_op' = op
    /\ IF index >= __len__ - 1
         THEN /\ raised' = "EndOfTapeException"
              /\ index' = index
         ELSE /\ raised' = "none"
              /\ index' = index + 1
    /\ NoteMove("move_right")
    /\ UNCHANGED <<memory, tape_size, initial_tape_index, last_write>>

move_right ==
    /\ op' = "move_right"
    /\ arg' = << >>
    /\ ret' = << >>
    /\ pre_index' = index
    /\ pre_op' = op
    /\ IF index = __len__ - 1
         THEN /\ raised' = "EndOfTapeException"
              /\ index' = index
         ELSE /\ raised' = "none"
              /\ index' = index + 1
    /\ NoteMove("move_right")
    /\ UNCHANGED <<memory, tape_size, initial_tape_index, last_write>>

\* variant: the getter reads self.memory[0] in place of self.memory[self.index]
value_first_cell ==
    /\ op' = "value"
    /\ arg' = << >>
    /\ pre_index' = index
    /\ pre_op' = op
    /\ IF PyIndex(Len(memory), 0) = 0
         THEN /\ raised' = "IndexError"
              /\ ret' = << >>
         ELSE /\ raised' = "none"
              /\ ret' = <<memory[PyIndex(Len(memory), 0)]>>
    /\ UNCHANGED <<memory, index, tape_size, initial_tape_index, last_write, run>>

\* variant: the getter is a destructive read, the cell is reset to 0
value_clears ==
    /\ op' = "value"
    /\ arg' = << >>
    /\ pre_index' = index
    /\ pre_op' = op
    /\ IF PyIndex(Len(memory), index) = 0
         THEN /\ raised' = "IndexError"
              /\ ret' = << >>
              /\ memory' = memory
         ELSE /\ raised' = "none"
              /\ ret' = <<memory[PyIndex(Len(memory), index)]>>
              /\ memory' = [memory EXCEPT ![PyIndex(Len(memory), index)] = 0]
    /\ UNCHANGED <<index, tape_size, initial_tape_index, last_write, run>>

\* the value getter
value ==
    /\ op' = "value"
    /\ arg' = << >>
    /\ pre_index' = index
    /\ pre_op' = op
    /\ IF PyIndex(Len(memory), index) = 0
         THEN /\ raised' = "IndexError"
              /\ ret' = << >>
         ELSE /\ raised' = "none"
              /\ ret' = <<memory[PyIndex(Len(memory), index)]>>
    /\ UNCHANGED <<memory, index, tape_size, initial_tape_index, last_write, run>>

\* variant: the setter fills the whole tape with value_to_set
value_setter_fill(value_to_set) ==
    /\ op' = "value_setter"
    /\ arg' = <<value_to_set>>
    /\ ret' = << >>
    /\ pre_index' = index
    /\ pre_op' = op
    /\ raised' = "none"
    /\ memory' = [p \in 1 .. Len(memory) |-> value_to_set]
    /\ NoteWrite(value_to_set)
    /\ UNCHANGED <<index, tape_size, initial_tape_index, run>>

\* variant: the setter appends value_to_set (self.memory.append) in place of
\* storing it at self.index
value_setter_append(value_to_set) ==
    /\ op' = "value_setter"
    /\ arg' = <<value_to_set>>
    /\ ret' = << >>
    /\ pre_index' = index
    /\ pre_op' = op
    /\ raised' = "none"
    /\ memory' = Append(memory, value_to_set)
    /\ NoteWrite(value_to_set)
    /\ UNCHANGED <<index, tape_size, initial_tape_index, run>>

\* variant: the setter stores at self.index - 1 in place of self.index
value_setter_left_cell(value_to_set) ==
    /\ op' = "value_setter"
    /\ arg' = <<value_to_set>>
    /\ ret' = << >>
    /\ pre_index' = index
    /\ pre_op' = op
    /\ IF PyIndex(Len(memory), index - 1) = 0
         THEN /\ raised' = "IndexError"
              /\ memory' = memory
         ELSE /\ raised' = "none"
              /\ memory' = [memory EXCEPT ![PyIndex(Len(memory), index - 1)] = value_to_set]
    /\ NoteWrite(value_to_set)
    /\ UNCHANGED <<index, tape_size, initial_tape_index, run>>

\* the value setter
value_setter(value_to_set) ==
    /\ op' = "value_setter"
    /\ arg' = <<value_to_set>>
    /\ ret' = << >>
    /\ pre_index' = index
    /\ pre_op' = op
    /\ IF PyIndex(Len(memory), index) = 0
         THEN /\ raised' = "IndexError"
              /\ memory' = memory
         ELSE /\ raised' = "none"
              /\ memory' = [memory EXCEPT ![PyIndex(Len(memory), index)] = value_to_set]
    /\ NoteWrite(value_to_set)
    /\ UNCHANGED <<index, tape_size, initial_tape_index, run>>

Next ==
    \/ move_left
    \/ move_right
    \/ value
    \/ \E value_to_set \in Values : value_setter(value_to_set)

Spec == Init /\ [][Next]_vars


\* the same methods on any constructed tape; the head of the model is kept
\* within HeadLow .. HeadHigh
move_left_bounded == index > HeadLow /\ move_left

move_right_bounded == index < HeadHigh /\ move_right

NextUnchecked ==
    \/ move_left_bounded
    \/ move_right_bounded
    \/ value
    \/ \E value_to_set \in Values : value_setter(value_to_set)

SpecUnchecked == InitUnchecked /\ [][NextUnchecked]_vars

\* ---- properties ----

\* C1: on a tape constructed with length L >= 1 and 0 <= i < L, after any
\* sequence of move_left, move_right, read and write calls, failed moves
\* included, the head satisfies 0 <= index < L.
HeadInRange == 0 <= index /\ index < __len__

\* the head went from the right end to the left end and two move_left calls
\* in a row then failed
HeadInRange_witness ==
    /\ op = "move_left" /\ raised = "EndOfTapeException"
    /\ pre_op = "move_left" /\ pre_index = index
    /\ tape_size > 1 /\ initial_tape_index = tape_size - 1

\* C2: move_left raises EndOfTapeException iff index - 1 < 0, move_right iff
\* index + 1 > length - 1; in every other case the move succeeds and changes
\* the head by exactly one: it is never clamped or wrapped without an error.
RaisesExactlyAtBoundary ==
    [][ /\ op' = "move_left" =>
            /\ (raised' = "EndOfTapeException") <=> (index - 1 < 0)
            /\ raised' \in {"EndOfTapeException", "none"}
            /\ raised' = "none" => index' = index - 1
        /\ op' = "move_right" =>
            /\ (raised' = "EndOfTapeException") <=> (index + 1 > __len__ - 1)
            /\ raised' \in {"EndOfTapeException", "none"}
            /\ raised' = "none" => index' = index + 1
      ]_vars

\* a move_right has succeeded into the last cell, right after a move_left
\* had failed at cell 0 of a two-cell tape
RaisesExactlyAtBoundary_witness ==
    /\ op = "move_right" /\ raised = "none" /\ index = __len__ - 1
    /\ pre_op = "move_left" /\ pre_index = 0 /\ tape_size = 2

\* C3: for every length L >= 1, move_left with the head at 0 fails with
\* EndOfTapeException and leaves the head at 0.
MoveLeftAtZeroFails ==
    [][ (op' = "move_left" /\ index = 0) =>
            (raised' = "EndOfTapeException" /\ index' = 0) ]_vars

\* move_left has failed at cell 0 of the longest tape
MoveLeftAtZeroFails_witness ==
    /\ op = "move_left" /\ pre_index = 0 /\ raised = "EndOfTapeException"
    /\ index = 0 /\ tape_size = MaxLen

\* C4: for every length L >= 1, move_right with the head at L - 1 fails with
\* EndOfTapeException and leaves the head at L - 1.
MoveRightAtEndFails ==
    [][ (op' = "move_right" /\ index = tape_size - 1) =>
            (raised' = "EndOfTapeException" /\ index' = tape_size - 1) ]_vars

\* move_right has failed at the last cell of the longest tape
MoveRightAtEndFails_witness ==
    /\ op = "move_right" /\ pre_index = tape_size - 1
    /\ raised = "EndOfTapeException"
    /\ index = tape_size - 1 /\ tape_size = MaxLen

\* C5: with index > 0 move_left succeeds and decrements the head by exactly
\* 1; with index < length - 1 move_right succeeds and increments it by
\* exactly 1.
MoveByExactlyOne ==
    [][ /\ (op' = "move_left" /\ index > 0) =>
            (raised' = "none" /\ index' = index - 1)
        /\ (op' = "move_right" /\ index < __len__ - 1) =>
            (raised' = "none" /\ index' = index + 1) ]_vars

\* a successful move_left right after a successful move_right
MoveByExactlyOne_witness ==
    /\ op = "move_left" /\ raised = "none" /\ index = pre_index - 1
    /\ pre_op = "move_right" /\ pre_index = __len__ - 1

\* C6: a write of v at the head followed immediately by a read returns v,
\* for every v and every valid head position, whatever the cell held.
ReadAfterWrite ==
    [][ (op = "value_setter" /\ op' = "value") =>
            (raised = "none" /\ raised' = "none" /\ ret' = arg) ]_vars

\* a read right after a write returned the largest value, at a head
\* other than the first cell
ReadAfterWrite_witness ==
    /\ op = "value" /\ pre_op = "value_setter"
    /\ ret = <<MaxVal>> /\ index > 0

\* C7: a write with the head at h changes only cell h: every other cell
\* of the tape holds the same value before and after the write.
WriteIsLocal ==
    [][ op' = "value_setter" =>
            /\ Len(memory') = Len(memory)
            /\ \A p \in 0 .. Len(memory) - 1 :
                   p # index => memory'[p + 1] = memory[p + 1] ]_vars

\* a write has just stored a value next to a cell that holds another
\* non-default value
WriteIsLocal_witness ==
    /\ op = "value_setter" /\ raised = "none"
    /\ \E p \in 0 .. Len(memory) - 1 :
           /\ p # index
           /\ memory[p + 1] # 0
           /\ memory[p + 1] # memory[index + 1]

\* C8: immediately after construction with length L >= 1 and 0 <= i < L,
\* len() is L, the head is i and each of the L cells holds 0.
FreshTape ==
    op = "__init__" =>
        /\ __len__ = tape_size
        /\ index = initial_tape_index
        /\ \A p \in 0 .. tape_size - 1 : memory[p + 1] = 0

\* the longest tape, just constructed with the head on its last cell
FreshTape_witness ==
    /\ op = "__init__" /\ tape_size = MaxLen
    /\ initial_tape_index = MaxLen - 1 /\ index = MaxLen - 1

\* C9: the tape length is fixed at construction: after any sequence of
\* calls, successful or failed, len() is the constructor's tape_size.
LengthFixed == __len__ = tape_size

\* a write, then a failed move on the longest tape
LengthFixed_witness ==
    /\ raised = "EndOfTapeException" /\ pre_op = "value_setter"
    /\ __len__ = MaxLen

\* C10: for every head h with 0 < h < L - 1, move_left then move_right
\* returns the head to h with both moves succeeding, and so does move_right
\* then move_left.
Interior(h) == 0 < h /\ h < __len__ - 1

MoveRoundTrip ==
    [][ /\ (op' \in {"move_left", "move_right"} /\ Interior(index)) =>
            raised' = "none"
        /\ (op = "move_left" /\ Interior(pre_index) /\ op' = "move_right") =>
            (raised' = "none" /\ index' = pre_index)
        /\ (op = "move_right" /\ Interior(pre_index) /\ op' = "move_left") =>
            (raised' = "none" /\ index' = pre_index) ]_vars

\* move_right then move_left, both successful, from an interior cell
MoveRoundTrip_witness ==
    /\ op = "move_left" /\ pre_op = "move_right" /\ raised = "none"
    /\ Interior(index) /\ pre_index = index + 1

\* C11: reading the current cell is pure and cannot fail: in every state
\* between operations the getter returns cells[head], raises nothing and
\* changes neither the head nor any cell.
ReadIsPure ==
    [][ op' = "value" =>
            /\ raised' = "none"
            /\ ret' = <<memory[index + 1]>>
            /\ index' = index
            /\ memory' = memory ]_vars

\* a read returned a non-default value from the last cell of the longest
\* tape, right after a failed move_right
ReadIsPure_witness ==
    /\ op = "value" /\ raised = "none" /\ pre_op = "move_right"
    /\ index = MaxLen - 1 /\ ret = <<memory[index + 1]>> /\ ret # <<0>>

\* the start and the number of successes of the run a move in direction
\* dir is about to continue or to start
RunStart(dir) == IF run.dir = dir THEN run.start ELSE index
RunOk(dir) == IF run.dir = dir THEN run.ok ELSE 0

\* C12: from a head at a valid index i on a tape of length L, repeated
\* move_right calls succeed exactly L - 1 - i times, the head advancing
\* i + 1, ..., L - 1, and every further move_right raises
\* EndOfTapeException with the head at L - 1; repeated move_left calls
\* succeed exactly i times and then always fail with the head at 0.  So a
\* caller that keeps moving in one direction receives EndOfTapeException
\* after at most L - 1 successful moves.
SweepCounts ==
    [][ /\ op' = "move_right" =>
            /\ (raised' = "none") <=>
                   (RunOk("move_right") < __len__ - 1 - RunStart("move_right"))
            /\ (raised' = "EndOfTapeException") <=>
                   (RunOk("move_right") = __len__ - 1 - RunStart("move_right"))
            /\ raised' = "none" =>
                   index' = RunStart("move_right") + RunOk("move_right") + 1
            /\ raised' = "EndOfTapeException" => index' = __len__ - 1
        /\ op' = "move_left" =>
            /\ (raised' = "none") <=>
                   (RunOk("move_left") < RunStart("move_left"))
            /\ (raised' = "EndOfTapeException") <=>
                   (RunOk("move_left") = RunStart("move_left"))
            /\ raised' = "none" =>
                   index' = RunStart("move_left") - RunOk("move_left") - 1
            /\ raised' = "EndOfTapeException" => index' = 0 ]_vars

\* a run of move_right from cell 0 of the longest tape has crossed the
\* whole tape and its last two calls were made at the last cell, the
\* latest one failing
SweepCounts_witness ==
    /\ op = "move_right" /\ pre_op = "move_right"
    /\ raised = "EndOfTapeException" /\ pre_index = index
    /\ run = [dir |-> "move_right", start |-> 0, ok |-> MaxLen - 1]
    /\ index = MaxLen - 1

\* C13: move_left and move_right, successful or failed, leave every cell
\* unchanged; read and write leave the head unchanged; the head changes
\* only through a successful move and a cell only through a write at the
\* current head.
FrameEffects ==
    [][ /\ op' \in {"move_left", "move_right"} => memory' = memory
        /\ op' \in {"value", "value_setter"} => index' = index
        /\ index' # index =>
               (op' \in {"move_left", "move_right"} /\ raised' = "none")
        /\ memory' # memory =>
               /\ op' = "value_setter"
               /\ Len(memory') = Len(memory)
               /\ \A p \in 0 .. Len(memory) - 1 :
                      memory'[p + 1] # memory[p + 1] => p = index ]_vars

\* a successful move_left away from a cell holding a non-default value,
\* onto a cell holding the default
FrameEffects_witness ==
    /\ op = "move_left" /\ raised = "none" /\ index = pre_index - 1
    /\ memory[pre_index + 1] # 0 /\ memory[index + 1] = 0

\* C14: a failed move is recoverable: after move_left or move_right raises
\* EndOfTapeException the head, every cell and the length are as before the
\* call, and on a tape with L >= 2 the move in the opposite direction then
\* succeeds.
FailedMoveRecoverable ==
    [][ /\ (op' \in {"move_left", "move_right"}
              /\ raised' = "EndOfTapeException") =>
               /\ index' = index
               /\ memory' = memory
               /\ tape_size' = tape_size
        /\ (op = "move_left" /\ raised = "EndOfTapeException"
              /\ __len__ >= 2 /\ op' = "move_right") =>
               (raised' = "none" /\ index' = pre_index + 1)
        /\ (op = "move_right" /\ raised = "EndOfTapeException"
              /\ __len__ >= 2 /\ op' = "move_left") =>
               (raised' = "none" /\ index' = pre_index - 1) ]_vars

\* a move_left succeeded right after a move_right had failed at the last
\* cell of the longest tape, whose cells keep a written value
FailedMoveRecoverable_witness ==
    /\ op = "move_left" /\ raised = "none" /\ pre_op = "move_right"
    /\ pre_index = MaxLen - 1 /\ index = MaxLen - 2
    /\ memory[MaxLen] # 0

\* C15: after any sequence of operations on a validly constructed tape,
\* every position p in [0, L - 1] holds the value of the latest write made
\* with the head at p, or the default 0 if there was none, and a read
\* returns that value for p = head.
CellsHoldLastWrite ==
    /\ DOMAIN last_write = 0 .. __len__ - 1
    /\ \A p \in 0 .. __len__ - 1 : memory[p + 1] = last_write[p]
    /\ (op = "value") => (ret = <<last_write[index]>>)

\* a read at the last cell of the longest tape returned the value written
\* there, while some cell still holds the default and another cell holds
\* a different written value
CellsHoldLastWrite_witness ==
    /\ op = "value" /\ index = MaxLen - 1 /\ __len__ = MaxLen
    /\ ret = <<last_write[index]>> /\ ret # <<0>>
    /\ \E p, q \in 0 .. MaxLen - 2 :
           /\ last_write[p] = 0
           /\ last_write[q] # 0 /\ last_write[q] # last_write[index]

\* C16: the constructor accepts any integers without error and stores
\* initial_tape_index unchecked; on a tape constructed with initial index
\* > length - 1 move_right never raises EndOfTapeException and increments
\* the head each time, on a tape constructed with initial index < 0
\* move_left never raises and decrements it each time, so such a head never
\* re-enters [0, length - 1] by moving further in that direction.
UncheckedHeadRunsAway ==
    [][ /\ op = "__init__" =>
            (raised = "none" /\ index = initial_tape_index)
        /\ (op' = "move_right" /\ index > __len__ - 1) =>
            (raised' = "none" /\ index' = index + 1 /\ index' > __len__ - 1)
        /\ (op' = "move_left" /\ index < 0) =>
            (raised' = "none" /\ index' = index - 1 /\ index' < 0)
        /\ (run'.dir = "move_right" /\ run'.start > __len__ - 1) =>
            (index' = run'.start + run'.ok /\ index' > __len__ - 1)
        /\ (run'.dir = "move_left" /\ run'.start < 0) =>
            (index' = run'.start - run'.ok /\ index' < 0) ]_vars

\* on a zero-length tape constructed with index 0, MaxDrift move_right
\* calls in a row have succeeded
UncheckedHeadRunsAway_witness ==
    /\ tape_size = 0 /\ initial_tape_index = 0 /\ __len__ = 0
    /\ op = "move_right" /\ raised = "none"
    /\ run = [dir |-> "move_right", start |-> 0, ok |-> MaxDrift]
    /\ index = MaxDrift

\* C17: on a validly constructed tape of length L every position in
\* [0, L - 1] is reachable from the initial head using only successful
\* moves: from every head below L - 1 a successful move_right to the next
\* cell is possible and from every head above 0 a successful move_left to
\* the previous cell; no single operation changes the head by more than 1;
\* on a tape of length 1 both moves always fail and the head stays at 0.
HeadWalksTheTape ==
    /\ index < __len__ - 1 =>
           ENABLED (move_right /\ raised' = "none" /\ index' = index + 1)
    /\ index > 0 =>
           ENABLED (move_left /\ raised' = "none" /\ index' = index - 1)
    /\ ~ ENABLED (Next /\ (index' > index + 1 \/ index' < index - 1))
    /\ __len__ = 1 =>
           /\ index = 0
           /\ ~ ENABLED (Next /\ op' \in {"move_left", "move_right"}
                              /\ ~ (raised' = "EndOfTapeException" /\ index' = 0))

\* the head, constructed on the last cell of the longest tape, has walked
\* to cell 0 by MaxLen - 1 successful move_left calls
HeadWalksTheTape_witness ==
    /\ initial_tape_index = MaxLen - 1 /\ __len__ = MaxLen /\ index = 0
    /\ op = "move_left" /\ raised = "none"
    /\ run = [dir |-> "move_left", start |-> MaxLen - 1, ok |-> MaxLen - 1]

====
